---- MODULE Spec2Model ----
(***************************************************************************)
(* MapShare: the Map component (src/components/Map.tsx) and the geocode    *)
(* proxy route handler (src/unnamed/part_000).                             *)
(*                                                                         *)
(* The state is the component's React state, the Leaflet handles it owns   *)
(* and its asynchronous calls in flight; each action is one handler, or    *)
(* one stretch of an async function between two awaits, with the render    *)
(* and the effects its state updates cause.                                *)
(*                                                                         *)
(* Spec          the content pipeline: viewport moves, geolocation, the    *)
(*               fetches they start, the article card and its cursor.      *)
(* SpecSearch    the search box, from the states the card can be in.       *)
(* SpecControls  the whole component, every handler together, with few    *)
(*               answers of the upstream services.                         *)
(* SpecLive      the pipeline with every request in flight eventually      *)
(*               answered, also after the component has unmounted.         *)
(* SpecProxy     the GET handler of the geocode proxy.                     *)
(* Spec and SpecSearch explore one part of the component with every        *)
(* answer its upstream service can give; SpecControls explores how the     *)
(* parts act on each other.                                                *)
(*                                                                         *)
(* Coordinates are integers in thousandths of a degree.  Text is a         *)
(* sequence of one-character strings.  A JavaScript value whose type       *)
(* matters is a record [t |-> its type, v |-> its number].                 *)
(***************************************************************************)
EXTENDS Integers, Sequences, FiniteSets, TLC

VARIABLES
    searchQuery,          \* useState("")
    currentLayer,         \* useState("standard")
    showControls,         \* useState(false)
    wikiArticles,         \* useState<WikiArticle[]>([])
    currentArticleIndex,  \* useState(0)
    userLocation,         \* useState<[number, number] | null>(null); <<>> is null
    mapView,              \* mapRef.current: the Leaflet viewport [center, zoom]
    tileLayers,           \* the tile layers mounted on mapRef.current
    tileLayerRef,         \* tileLayerRef.current
    markersLayer,         \* markersLayerRef.current: its markers, in order
    userMarker,           \* userMarkerRef.current; <<>> is null
    geolocation,          \* the one-shot getCurrentPosition request
    fetches,              \* fetchWikiArticles calls in flight, oldest first
    searches,             \* handleSearch calls awaiting the proxy, oldest first
    lastOp,               \* history: the handler or step that ran last, its input
    lastResolved,         \* history: the fetchWikiArticles call that ended last
    requests              \* geocode proxy: the GET invocations, oldest first

vars == <<searchQuery, currentLayer, showControls, wikiArticles,
          currentArticleIndex, userLocation, mapView, tileLayers, tileLayerRef,
          markersLayer, userMarker, geolocation, fetches, searches, lastOp,
          lastResolved, requests>>

mapVars == <<searchQuery, currentLayer, showControls, wikiArticles,
             currentArticleIndex, userLocation, mapView, tileLayers,
             tileLayerRef, markersLayer, userMarker, geolocation, fetches,
             searches, lastOp, lastResolved>>

(***************************************************************************)
(* Bounds of the model.                                                    *)
(***************************************************************************)
MaxInFlight == 2      \* fetchWikiArticles calls in flight at once
MaxSearches == 1      \* handleSearch calls in flight at once
MaxIds == 2           \* items in one discovery response
MaxPages == 2         \* records in one hydration response
MaxResults == 2       \* candidates in one geocoder response
MaxRequests == 2      \* invocations of the proxy handler

(***************************************************************************)
(* JavaScript values.                                                      *)
(***************************************************************************)
Num(n) == [t |-> "number", v |-> n]
Null == [t |-> "null", v |-> 0]
Undefined == [t |-> "undefined", v |-> 0]
NaN == [t |-> "NaN", v |-> 0]

DigitChars == <<"0", "1", "2", "3", "4", "5", "6", "7", "8", "9">>
IsDigit(c) == \E i \in 1..10 : DigitChars[i] = c
DigitVal(c) == (CHOOSE i \in 1..10 : DigitChars[i] = c) - 1

RECURSIVE DigitsValue(_)
DigitsValue(s) ==
    IF s = <<>> THEN 0
    ELSE 10 * DigitsValue(SubSeq(s, 1, Len(s) - 1)) + DigitVal(s[Len(s)])

RECURSIVE EndOfDigits(_, _)
EndOfDigits(s, i) ==
    IF i <= Len(s) /\ IsDigit(s[i]) THEN EndOfDigits(s, i + 1) ELSE i

Thousandths(frac) ==
    LET padded == frac \o <<"0", "0", "0">>
    IN DigitsValue(SubSeq(padded, 1, 3))

\* Number.parseFloat: optional sign, digits, optional fraction; the longest
\* numeric prefix is read, and no digit at all gives NaN.
ParseFloat(s) ==
    LET neg == Len(s) >= 1 /\ s[1] = "-"
        start == IF Len(s) >= 1 /\ s[1] \in {"-", "+"} THEN 2 ELSE 1
        intEnd == EndOfDigits(s, start)
        hasFrac == intEnd <= Len(s) /\ s[intEnd] = "."
        fracEnd == IF hasFrac THEN EndOfDigits(s, intEnd + 1) ELSE intEnd
        intDigits == SubSeq(s, start, intEnd - 1)
        fracDigits == IF hasFrac THEN SubSeq(s, intEnd + 1, fracEnd - 1) ELSE <<>>
        milli == DigitsValue(intDigits) * 1000 + Thousandths(fracDigits)
    IN IF Len(intDigits) + Len(fracDigits) = 0 THEN NaN
       ELSE Num(IF neg THEN 0 - milli ELSE milli)

RECURSIVE NatToChars(_)
NatToChars(n) ==
    IF n < 10 THEN <<DigitChars[n + 1]>>
    ELSE NatToChars(n \div 10) \o <<DigitChars[(n % 10) + 1]>>

\* Array.prototype.join's rendering of one element: undefined and null give "".
ElementText(x) == IF x.t = "number" THEN NatToChars(x.v) ELSE <<>>

RECURSIVE Join(_, _)
Join(xs, sep) ==
    IF xs = <<>> THEN <<>>
    ELSE IF Len(xs) = 1 THEN ElementText(xs[1])
    ELSE ElementText(xs[1]) \o sep \o Join(Tail(xs), sep)

RECURSIVE EncodeURIComponent(_)
EncodeURIComponent(s) ==
    IF s = <<>> THEN <<>>
    ELSE (IF Head(s) = " " THEN <<"%", "2", "0">> ELSE <<Head(s)>>)
         \o EncodeURIComponent(Tail(s))

Remove(seq, i) == SubSeq(seq, 1, i - 1) \o SubSeq(seq, i + 1, Len(seq))

\* All sequences over S of length at most n.
RECURSIVE SeqsUpTo(_, _)
SeqsUpTo(S, n) ==
    IF n = 0 THEN {<<>>}
    ELSE LET shorter == SeqsUpTo(S, n - 1)
         IN shorter \cup
            {Append(s, x) : s \in {t \in shorter : Len(t) = n - 1},
                            x \in S}

Range(seq) == {seq[i] : i \in 1..Len(seq)}
NoRepeat(seq) == Cardinality(Range(seq)) = Len(seq)

RECURSIVE SortedSeq(_)
SortedSeq(S) ==
    IF S = {} THEN <<>>
    ELSE LET m == CHOOSE x \in S : \A y \in S : x <= y
         IN <<m>> \o SortedSeq(S \ {m})

(***************************************************************************)
(* The world outside the component: what the user, the device and the      *)
(* upstream services can supply.                                           *)
(***************************************************************************)
Layers == {"standard", "satellite", "explore"}     \* keys of mapLayers
InitialLat == 51505                                \* setView([51.505, ...
InitialLon == 0 - 90                               \*          -0.09], 13)
InitialZoom == 13
ViewZoom == 13                                     \* setView(..., 13)
Zooms == {ViewZoom - 1, ViewZoom}                  \* zooms the user can pick

\* Candidates of the upstream geocoder: lat and lon are numeric strings.
Paris == [lat |-> <<"4", "8", ".", "8", "5", "6">>,
          lon |-> <<"2", ".", "3", "5", "2">>]
London == [lat |-> <<"5", "1", ".", "5", "0", "5">>,
           lon |-> <<"-", "0", ".", "0", "9">>]
GeoResults == {Paris, London}

\* Places the user can pan the map to, and the place the device is at.
Positions == {<<InitialLat, InitialLon>>, <<48856, 2352>>}
DevicePositions == {<<48856, 2352>>}

\* What the user can type into the search box: lengths 0, 1, 2 and 3.
Queries == {<<>>, <<"a">>, <<"a", "b">>, <<"a", " ", "b">>}

\* Records of the upstream detail service, by pageid.  coordinates is
\* absent (has = FALSE) or an array with a first entry, which may lack a
\* member: page 3 has no coordinates, page 4 a latitude only.
Coordinates(arr) == [has |-> TRUE, arr |-> arr]
NoCoordinates == [has |-> FALSE, arr |-> <<>>]
PageIdSet == {1, 2, 3, 4}
PageDB(id) ==
    CASE id = 1 -> [pageid |-> 1,
                    coordinates |-> Coordinates(<<[lat |-> Num(51500), lon |-> Num(0 - 100)]>>)]
      [] id = 2 -> [pageid |-> 2,
                    coordinates |-> Coordinates(<<[lat |-> Num(48850), lon |-> Num(2350)]>>)]
      [] id = 3 -> [pageid |-> 3, coordinates |-> NoCoordinates]
      [] OTHER  -> [pageid |-> 4,
                    coordinates |-> Coordinates(<<[lat |-> Num(48860), lon |-> Undefined]>>)]

\* Responses to a request: the request fails, the body is no JSON, the JSON
\* lacks the expected members, or it is well formed.
FailureKinds == {"networkError", "unparsable", "malformed"}
Failure(kind) == [kind |-> kind, body |-> <<>>]
Ok(body) == [kind |-> "ok", body |-> body]

\* data.query.geosearch: items with a pageid.
GeosearchItems == {[pageid |-> Num(1)], [pageid |-> Num(2)]}
DiscoveryResponses ==
    {Failure(k) : k \in FailureKinds}
    \cup {Ok(s) : s \in {t \in SeqsUpTo(GeosearchItems, MaxIds) : NoRepeat(t)}}

\* articleData.query.pages: an object keyed by pageid; Object.values lists
\* integer keys in ascending order.
ObjectValues(ids) == [i \in 1..Cardinality(ids) |-> PageDB(SortedSeq(ids)[i])]
HydrationResponses ==
    {Failure(k) : k \in FailureKinds}
    \cup {Ok(ObjectValues(ids)) :
            ids \in {S \in SUBSET PageIdSet : Cardinality(S) <= MaxPages}}

\* Responses of /api/search as handleSearch sees them: a rejected fetch, a
\* non-ok status, a body that is no JSON, or a JSON array of candidates.
SearchResponses ==
    {Failure(k) : k \in {"networkError", "notOk", "unparsable"}}
    \cup {Ok(s) : s \in {t \in SeqsUpTo(GeoResults, MaxResults) : NoRepeat(t)}}

(***************************************************************************)
(* The Map component.                                                      *)
(***************************************************************************)
NoLocation == <<>>
Op(op, arg) == [op |-> op, arg |-> arg]
Other == Op("other", <<>>)
\* What the history keeps of a response: whether it failed, and its body.
Seen(resp) == [failed |-> resp.kind # "ok", body |-> resp.body]

\* The card at the bottom left (Map.tsx 279-332): the focused article, or
\* the no-results card.  Reading .title of a missing item throws.
RenderThrows ==
    /\ Len(wikiArticles) > 0
    /\ currentArticleIndex \notin 0..(Len(wikiArticles) - 1)
Render ==
    IF Len(wikiArticles) = 0 THEN "noResults"
    ELSE IF RenderThrows THEN "throws" ELSE "card"
\* A render that throws unmounts the component: no handler runs after it.
Mounted == ~RenderThrows
\* Buttons that are disabled only without any article.
NavigationDisabledWhenEmpty == Len(wikiArticles) = 0

\* disabled={wikiArticles.length <= 1}, Map.tsx 305 and 313.
NavigationDisabled == Len(wikiArticles) <= 1

\* leaflet.setView(center, zoom); Leaflet rejects a NaN coordinate.
SetViewThrows(lat, lon) == lat.t # "number" \/ lon.t # "number"
SetView(lat, lon, zoom) == [center |-> <<lat, lon>>, zoom |-> zoom]

\* The marker effect (useEffect on wikiArticles): clearLayers, then one
\* marker per article whose lat and lon are both of type number.
RECURSIVE MarkerEffect(_)
MarkerEffect(articles) ==
    IF articles = <<>> THEN <<>>
    ELSE LET a == Head(articles)
         IN (IF a.lat.t = "number" /\ a.lon.t = "number"
             THEN <<[lat |-> a.lat.v, lon |-> a.lon.v, pageid |-> a.pageid]>>
             ELSE <<>>)
            \o MarkerEffect(Tail(articles))

\* The first await of fetchWikiArticles: the discovery request is issued.
DiscoveryRequest(lat, lon) ==
    [phase |-> "discovery", request |-> <<lat, lon>>, overtaken |-> FALSE]
\* The second await, Map.tsx 164-166: the hydration request is issued.
HydrationRequest(call, pageIds) ==
    [phase |-> "hydration", request |-> pageIds, overtaken |-> call.overtaken]
\* A trigger that issues its request twice.
StartFetchTwice(lat, lon) ==
    Append(Append(fetches, DiscoveryRequest(lat, lon)), DiscoveryRequest(lat, lon))

\* A call of fetchWikiArticles(lat, lon), up to its first await.
StartFetch(lat, lon) == Append(fetches, DiscoveryRequest(lat, lon))
CanStartFetch == Len(fetches) < MaxInFlight

\* Call i has resolved: it leaves the calls in flight; the calls issued
\* before it that are still in flight have been overtaken.
Resolved(i) ==
    [j \in 1..(Len(fetches) - 1) |->
        IF j < i THEN [fetches[j] EXCEPT !.overtaken = TRUE]
        ELSE fetches[j + 1]]

\* A request token: the response of a call that a later call has overtaken
\* is dropped.
SetWikiArticlesUnlessOvertaken(i, list) ==
    /\ wikiArticles' = IF fetches[i].overtaken THEN wikiArticles ELSE list
    /\ markersLayer' = MarkerEffect(wikiArticles')
    /\ UNCHANGED currentArticleIndex

\* setWikiArticles(list) by call i, the render it causes and the marker
\* effect that follows the render.
SetWikiArticles(i, list) ==
    /\ wikiArticles' = list
    /\ markersLayer' = MarkerEffect(list)
    /\ UNCHANGED currentArticleIndex

\* Map.tsx 169-177: one page of the hydration response as a WikiArticle.
ToArticle(page) ==
    [pageid |-> page.pageid,
     lat |-> IF page.coordinates.has THEN page.coordinates.arr[1].lat ELSE Null,
     lon |-> IF page.coordinates.has THEN page.coordinates.arr[1].lon ELSE Null]
MapPages(pages) == [i \in 1..Len(pages) |-> ToArticle(pages[i])]

\* Map.tsx 180: the filter applied before setWikiArticles.
KeepArticle(article) == article.lat # Null /\ article.lon # Null
FilterArticles(articles) == SelectSeq(articles, KeepArticle)

Init ==
    /\ searchQuery = <<>>
    /\ currentLayer = "standard"
    /\ showControls = FALSE
    /\ wikiArticles = <<>>
    /\ currentArticleIndex = 0
    /\ userLocation = NoLocation
    /\ mapView = SetView(InitialLat, InitialLon, InitialZoom)
    /\ tileLayers = {"standard"}
    /\ tileLayerRef = "standard"
    /\ markersLayer = <<>>
    /\ userMarker = NoLocation
    /\ geolocation = "pending"
    /\ fetches = <<>>
    /\ searches = <<>>
    /\ lastOp = Op("mount", <<>>)
    /\ lastResolved = [result |-> <<>>]
    /\ requests = <<>>

\* onChange of the search box.
setSearchQuery(q) ==
    /\ Mounted
    /\ searchQuery' = q
    /\ lastOp' = Other
    /\ UNCHANGED <<currentLayer, showControls, wikiArticles, currentArticleIndex,
                   userLocation, mapView, tileLayers, tileLayerRef, markersLayer,
                   userMarker, geolocation, fetches, searches, requests, lastResolved>>

\* The guard that lets two characters through.
QueryAtLeastTwo(q) == Len(q) >= 2

\* The guard of handleSearch, Map.tsx 116.
QueryLongEnough(q) == Len(q) > 2

\* handleSearch up to its first await: the request to /api/search.
handleSearch ==
    /\ Mounted
    /\ lastOp' = Op("handleSearch", <<>>)
    /\ IF QueryLongEnough(searchQuery)
       THEN /\ Len(searches) < MaxSearches
            /\ searches' = Append(searches, [q |-> EncodeURIComponent(searchQuery),
                                             typed |-> searchQuery])
       ELSE UNCHANGED searches
    /\ UNCHANGED <<searchQuery, currentLayer, showControls, wikiArticles,
                   currentArticleIndex, userLocation, mapView, tileLayers,
                   tileLayerRef, markersLayer, userMarker, geolocation, fetches,
                   requests, lastResolved>>

\* A handler that falls back to the initial view.
RecenterOnInitialView ==
    /\ mapView' = SetView(InitialLat, InitialLon, InitialZoom)
    /\ UNCHANGED fetches

\* Map.tsx 123-128: an empty array skips the if, the catch only logs.
NoRecenter == UNCHANGED <<mapView, fetches>>

\* handleResultSelect, Map.tsx 132-139 (mapRef.current is set once mounted).
\* The candidate taken from the end of the array.
LastResult(data) == data[Len(data)]

\* data[0], Map.tsx 124.
FirstResult(data) == data[1]
handleResultSelect(result) ==
    LET lat == ParseFloat(result.lat)
        lon == ParseFloat(result.lon)
    IN IF SetViewThrows(lat, lon)
       THEN NoRecenter
       ELSE /\ CanStartFetch
            /\ mapView' = SetView(lat.v, lon.v, ViewZoom)
            /\ fetches' = StartFetch(lat.v, lon.v)

\* handleSearch from its first await on: the response of /api/search.
handleSearchResponse(i, resp) ==
    /\ Mounted
    /\ i \in 1..Len(searches)
    /\ searches' = Remove(searches, i)
    /\ lastOp' = Op("handleSearchResponse", Seen(resp))
    /\ IF resp.kind = "ok" /\ Len(resp.body) > 0
       THEN handleResultSelect(FirstResult(resp.body))
       ELSE NoRecenter
    /\ UNCHANGED <<searchQuery, currentLayer, showControls, wikiArticles,
                   currentArticleIndex, userLocation, tileLayers, tileLayerRef,
                   markersLayer, userMarker, geolocation, requests, lastResolved>>

\* The moveend listener, Map.tsx 71-74: the viewport came to rest at pos,
\* after a gesture of the user or after a setView (then pos is the centre
\* that setView gave the map).
moveend(pos, zoom) ==
    /\ Mounted
    /\ CanStartFetch
    /\ mapView' = SetView(pos[1], pos[2], zoom)
    /\ fetches' = StartFetch(pos[1], pos[2])
    /\ lastOp' = Op("moveend", <<>>)
    /\ UNCHANGED <<searchQuery, currentLayer, showControls, wikiArticles,
                   currentArticleIndex, userLocation, tileLayers, tileLayerRef,
                   markersLayer, userMarker, geolocation, searches, requests, lastResolved>>

\* The getCurrentPosition callback, Map.tsx 63-68, and the user-marker
\* effect that follows setUserLocation, Map.tsx 78-91.
getCurrentPosition(pos) ==
    /\ Mounted
    /\ geolocation = "pending"
    /\ CanStartFetch
    /\ geolocation' = "delivered"
    /\ userLocation' = pos
    /\ userMarker' = pos
    /\ mapView' = SetView(pos[1], pos[2], ViewZoom)
    /\ fetches' = StartFetch(pos[1], pos[2])
    /\ lastOp' = Op("getCurrentPosition", <<>>)
    /\ UNCHANGED <<searchQuery, currentLayer, showControls, wikiArticles,
                   currentArticleIndex, tileLayers, tileLayerRef, markersLayer,
                   searches, requests, lastResolved>>

\* onPressedChange of the controls toggle.
setShowControls(pressed) ==
    /\ Mounted
    /\ showControls' = pressed
    /\ lastOp' = Other
    /\ UNCHANGED <<searchQuery, currentLayer, wikiArticles, currentArticleIndex,
                   userLocation, mapView, tileLayers, tileLayerRef, markersLayer,
                   userMarker, geolocation, fetches, searches, requests, lastResolved>>

\* changeMapLayer, Map.tsx 141-149: removeLayer(old), then addTo(map).  The
\* history keeps the layers mounted between the two calls.
RemoveLayer(mounted, layer) == mounted \ {layer}
\* The standard tiles, whatever the key.
AddStandardLayer(mounted, layer) == mounted \cup {"standard"}

\* L.tileLayer(mapLayers[layer]).addTo(map), Map.tsx 145-147.
AddLayer(mounted, layer) == mounted \cup {layer}

\* The old layer is left on the map.
KeepOldLayer(mounted, old) == mounted

\* Map.tsx 144.
DetachOldLayer(mounted, old) == RemoveLayer(mounted, old)
changeMapLayer(layer) ==
    LET between == DetachOldLayer(tileLayers, tileLayerRef)
    IN /\ Mounted
       /\ showControls
       /\ currentLayer' = layer
       /\ tileLayers' = AddLayer(between, layer)
       /\ tileLayerRef' = layer
       /\ lastOp' = Op("changeMapLayer", [between |-> between])
       /\ UNCHANGED <<searchQuery, showControls, wikiArticles, currentArticleIndex,
                      userLocation, mapView, markersLayer, userMarker, geolocation,
                      fetches, searches, requests, lastResolved>>

\* A button that falls back to the initial view.
UserLocationOrInitialView ==
    IF userLocation # NoLocation
    THEN SetView(userLocation[1], userLocation[2], ViewZoom)
    ELSE SetView(InitialLat, InitialLon, InitialZoom)

\* Map.tsx 196-198: the view after the button, userLocation being set or not.
UserLocationView ==
    IF userLocation # NoLocation
    THEN SetView(userLocation[1], userLocation[2], ViewZoom)
    ELSE mapView

\* centerOnUserLocation, Map.tsx 195-199.
centerOnUserLocation ==
    /\ Mounted
    /\ showControls
    /\ mapView' = UserLocationView
    /\ lastOp' = Op("centerOnUserLocation", <<>>)
    /\ UNCHANGED <<searchQuery, currentLayer, showControls, wikiArticles,
                   currentArticleIndex, userLocation, tileLayers, tileLayerRef,
                   markersLayer, userMarker, geolocation, fetches, searches,
                   requests, lastResolved>>

\* navigateArticle, Map.tsx 187-193; its buttons are rendered with the card
\* and disabled when the list has at most one item.
\* A step forward that does not wrap.
NextIndexNoWrap(index, length) == index + 1

NextIndex(index, length) == (index + 1) % length
PrevIndex(index, length) == (index - 1 + length) % length
navigateArticle(direction) ==
    /\ Mounted
    /\ Render = "card"
    /\ ~NavigationDisabled
    /\ currentArticleIndex' =
         IF direction = "next"
         THEN NextIndex(currentArticleIndex, Len(wikiArticles))
         ELSE PrevIndex(currentArticleIndex, Len(wikiArticles))
    /\ lastOp' = Op("navigateArticle", direction)
    /\ UNCHANGED <<searchQuery, currentLayer, showControls, wikiArticles,
                   userLocation, mapView, tileLayers, tileLayerRef, markersLayer,
                   userMarker, geolocation, fetches, searches, requests, lastResolved>>

\* A fetchWikiArticles call ends by setWikiArticles(list): at its return
\* (Map.tsx 160), at its last line (180) or in its catch (183).
EndFetch(i, list) ==
    /\ SetWikiArticles(i, list)
    /\ fetches' = Resolved(i)
    /\ lastResolved' = [result |-> list]

\* The catch that keeps the list it has.
FetchCatchKeepsList(i) == EndFetch(i, wikiArticles)

\* A catch that leaves the call waiting for another answer.
FetchCatchWaits(i) ==
    UNCHANGED <<fetches, wikiArticles, currentArticleIndex, markersLayer,
                lastResolved>>

\* The catch of fetchWikiArticles, Map.tsx 181-184.
FetchCatch(i) == EndFetch(i, <<>>)

\* The first identifier only.
FirstPageId(geosearch) ==
    IF geosearch = <<>> THEN <<>> ELSE ElementText(geosearch[1].pageid)

\* Map.tsx 157.
PageIds(geosearch) ==
    Join([k \in 1..Len(geosearch) |-> geosearch[k].pageid], <<"|">>)

\* The check that is never true.
NoPageIdsNever(pageIds) == FALSE

\* Map.tsx 159.
NoPageIds(pageIds) == Len(pageIds) = 0

\* A call that empties the list while it awaits the hydration.
ClearListWhileHydrating ==
    /\ wikiArticles' = <<>>
    /\ markersLayer' = <<>>
    /\ UNCHANGED <<currentArticleIndex, lastResolved>>

\* Map.tsx 164-166: nothing is written before the second await.
KeepListWhileHydrating ==
    UNCHANGED <<wikiArticles, currentArticleIndex, markersLayer, lastResolved>>

\* fetchWikiArticles from the discovery response to its next await or its
\* end, Map.tsx 156-166 and 181-184.
discoveryResponse(i, resp) ==
    /\ Mounted
    /\ i \in 1..Len(fetches)
    /\ fetches[i].phase = "discovery"
    /\ lastOp' = Op("discoveryResponse", Seen(resp))
    /\ IF resp.kind # "ok"
       THEN FetchCatch(i)
       ELSE IF NoPageIds(PageIds(resp.body))
       THEN EndFetch(i, <<>>)
       ELSE /\ fetches' = [fetches EXCEPT
                              ![i] = HydrationRequest(fetches[i], PageIds(resp.body))]
            /\ KeepListWhileHydrating
    /\ UNCHANGED <<searchQuery, currentLayer, showControls, userLocation, mapView,
                   tileLayers, tileLayerRef, userMarker, geolocation, searches,
                   requests>>

\* fetchWikiArticles from the hydration response to its end, Map.tsx
\* 167-184.
hydrationResponse(i, resp) ==
    /\ Mounted
    /\ i \in 1..Len(fetches)
    /\ fetches[i].phase = "hydration"
    /\ lastOp' = Op("hydrationResponse",
                     [failed |-> resp.kind # "ok", stale |-> fetches[i].overtaken])
    /\ IF resp.kind # "ok"
       THEN FetchCatch(i)
       ELSE EndFetch(i, FilterArticles(MapPages(resp.body)))
    /\ UNCHANGED <<searchQuery, currentLayer, showControls, userLocation, mapView,
                   tileLayers, tileLayerRef, userMarker, geolocation, searches,
                   requests>>

\* The content pipeline: viewport moves, geolocation, the fetches they
\* start and the article card.  The pipeline does not read the zoom.
Next ==
    \/ \E pos \in Positions : moveend(pos, ViewZoom)
    \/ \E pos \in DevicePositions : getCurrentPosition(pos)
    \/ \E direction \in {"next", "prev"} : navigateArticle(direction)
    \/ \E i \in 1..MaxInFlight, resp \in DiscoveryResponses : discoveryResponse(i, resp)
    \/ \E i \in 1..MaxInFlight, resp \in HydrationResponses : hydrationResponse(i, resp)

Spec == Init /\ [][Next]_vars

\* The calls in flight when the render has thrown: the async function runs
\* on, its setWikiArticles reaches an unmounted component and is dropped.
discoveryResponseUnmounted(i, resp) ==
    /\ ~Mounted
    /\ i \in 1..Len(fetches)
    /\ fetches[i].phase = "discovery"
    /\ lastOp' = Op("unmounted", <<>>)
    /\ fetches' = IF resp.kind # "ok" \/ NoPageIds(PageIds(resp.body))
                  THEN Resolved(i)
                  ELSE [fetches EXCEPT
                           ![i] = HydrationRequest(fetches[i], PageIds(resp.body))]
    /\ UNCHANGED <<searchQuery, currentLayer, showControls, wikiArticles,
                   currentArticleIndex, userLocation, mapView, tileLayers,
                   tileLayerRef, markersLayer, userMarker, geolocation, searches,
                   lastResolved, requests>>

hydrationResponseUnmounted(i, resp) ==
    /\ ~Mounted
    /\ i \in 1..Len(fetches)
    /\ fetches[i].phase = "hydration"
    /\ lastOp' = Op("unmounted", <<>>)
    /\ fetches' = Resolved(i)
    /\ UNCHANGED <<searchQuery, currentLayer, showControls, wikiArticles,
                   currentArticleIndex, userLocation, mapView, tileLayers,
                   tileLayerRef, markersLayer, userMarker, geolocation, searches,
                   lastResolved, requests>>

\* The ways a request can be answered, one of each: a failure, no item, an
\* item; a failure, one page, two pages.
LiveDiscoveryResponses ==
    {Failure("networkError"), Ok(<<>>), Ok(<<[pageid |-> Num(1)]>>)}
LiveHydrationResponses ==
    {Failure("networkError"), Ok(ObjectValues({1})), Ok(ObjectValues({1, 2}))}

\* The request that call i awaits is answered.
Answered(i) ==
    \/ \E resp \in LiveDiscoveryResponses :
          discoveryResponse(i, resp) \/ discoveryResponseUnmounted(i, resp)
    \/ \E resp \in LiveHydrationResponses :
          hydrationResponse(i, resp) \/ hydrationResponseUnmounted(i, resp)

\* The content pipeline to the end of every call: a fetch() settles, with a
\* response or a failure, whatever has become of the component.
NextLive ==
    \/ \E pos \in DevicePositions : moveend(pos, ViewZoom)
    \/ \E pos \in DevicePositions : getCurrentPosition(pos)
    \/ \E direction \in {"next", "prev"} : navigateArticle(direction)
    \/ \E i \in 1..MaxInFlight, resp \in LiveDiscoveryResponses :
          discoveryResponse(i, resp)
    \/ \E i \in 1..MaxInFlight, resp \in LiveHydrationResponses :
          hydrationResponse(i, resp)
    \/ \E i \in 1..MaxInFlight, resp \in LiveDiscoveryResponses :
          discoveryResponseUnmounted(i, resp)
    \/ \E i \in 1..MaxInFlight, resp \in LiveHydrationResponses :
          hydrationResponseUnmounted(i, resp)

SpecLive ==
    /\ Init
    /\ [][NextLive]_vars
    /\ \A i \in 1..MaxInFlight : WF_vars(Answered(i))

\* The whole component: the controls panel and the search box with the
\* viewport moves and the fetches around them.  The upstream services
\* answer with a failure, with nothing, or with pages 1 and 2; the geocoder
\* with a failure, with nothing, or with one candidate.
ControlsDiscoveryResponses ==
    {Failure("networkError"), Ok(<<>>), Ok(<<[pageid |-> Num(1)], [pageid |-> Num(2)]>>)}
ControlsHydrationResponses ==
    {Failure("networkError"), Ok(ObjectValues({1, 2}))}
ControlsSearchResponses == {Failure("notOk"), Ok(<<>>), Ok(<<Paris>>)}
ControlsQueries == {<<"a", "b">>, <<"a", " ", "b">>}
NextControls ==
    \/ \E pressed \in BOOLEAN : setShowControls(pressed)
    \/ \E layer \in Layers : changeMapLayer(layer)
    \/ centerOnUserLocation
    \/ \E q \in ControlsQueries : setSearchQuery(q)
    \/ handleSearch
    \/ \E i \in 1..MaxSearches, resp \in ControlsSearchResponses :
          handleSearchResponse(i, resp)
    \/ \E pos \in DevicePositions, zoom \in Zooms : moveend(pos, zoom)
    \/ \E pos \in DevicePositions : getCurrentPosition(pos)
    \/ \E direction \in {"next", "prev"} : navigateArticle(direction)
    \/ \E i \in 1..MaxInFlight, resp \in ControlsDiscoveryResponses :
          discoveryResponse(i, resp)
    \/ \E i \in 1..MaxInFlight, resp \in ControlsHydrationResponses :
          hydrationResponse(i, resp)

SpecControls == Init /\ [][NextControls]_vars

\* The search box, from any state the card can be in: the lists are those a
\* hydration response of pages 1 and 2 leaves, the cursor any item of them.
CardLists ==
    {FilterArticles(MapPages(ObjectValues(ids))) : ids \in {{}, {1}, {1, 2}}}
InitSearch ==
    /\ searchQuery = <<>>
    /\ currentLayer = "standard"
    /\ showControls = FALSE
    /\ wikiArticles \in CardLists
    /\ currentArticleIndex \in 0..(Len(wikiArticles) - 1) \cup {0}
    /\ userLocation = NoLocation
    /\ mapView = SetView(InitialLat, InitialLon, InitialZoom)
    /\ tileLayers = {"standard"}
    /\ tileLayerRef = "standard"
    /\ markersLayer = MarkerEffect(wikiArticles)
    /\ userMarker = NoLocation
    /\ geolocation = "pending"
    /\ fetches = <<>>
    /\ searches = <<>>
    /\ lastOp = Op("mount", <<>>)
    /\ lastResolved = [result |-> wikiArticles]
    /\ requests = <<>>

NextSearch ==
    \/ \E q \in Queries : setSearchQuery(q)
    \/ handleSearch
    \/ \E i \in 1..MaxSearches, resp \in SearchResponses : handleSearchResponse(i, resp)
    \/ \E pos \in Positions, zoom \in Zooms : moveend(pos, zoom)
    \/ \E direction \in {"next", "prev"} : navigateArticle(direction)

SpecSearch == InitSearch /\ [][NextSearch]_vars

(***************************************************************************)
(* The geocode proxy: GET of src/unnamed/part_000.                         *)
(***************************************************************************)
Text(chars) == [t |-> "string", s |-> chars]
NoText == [t |-> "null", s |-> <<>>]
\* searchParams.get("q"): null when the URL has no q.
QueryParams == {NoText} \cup {Text(q) : q \in Queries}

\* The check that only catches a missing parameter.
IsNull(x) == x.t = "null"

\* !query
Falsy(x) == x.t = "null" \/ (x.t = "string" /\ Len(x.s) = 0)

ErrorBody(text) == [json |-> "error", error |-> text, data |-> <<>>]
DataBody(data) == [json |-> "data", error |-> "", data |-> data]
NoBody == [json |-> "none", error |-> "", data |-> <<>>]

\* What the upstream geocoder can answer: the proxy's fetch rejects, the
\* status is not ok, the body is no JSON, or the body is a list of candidates.
UpstreamResponses ==
    {Failure(k) : k \in {"networkError", "notOk", "unparsable"}}
    \cup {Ok(s) : s \in {t \in SeqsUpTo(GeoResults, MaxResults) : NoRepeat(t)}}

\* An invocation keeps, as history, the number of upstream requests it
\* made and the upstream response it got.
NoResponse == [kind |-> "none", body |-> <<>>]
Respond(query, status, body, upstream, got) ==
    [query |-> query, state |-> "done", status |-> status, body |-> body,
     upstream |-> upstream, sent |-> <<>>, got |-> got]
\* part_000 12-19: the request to the upstream geocoder.
AwaitUpstream(query) ==
    [query |-> query, state |-> "upstream", status |-> 0, body |-> NoBody,
     upstream |-> 1, sent |-> EncodeURIComponent(query.s), got |-> NoResponse]

\* GET up to its first await, part_000 3-19.
GET(query) ==
    /\ Len(requests) < MaxRequests
    /\ requests' = Append(requests,
         IF Falsy(query)
         THEN Respond(query, 400, ErrorBody("Query parameter is required"), 0,
                      NoResponse)
         ELSE AwaitUpstream(query))
    /\ UNCHANGED mapVars

\* Only a rejected fetch reaches the catch.
UpstreamRejected(resp) == resp.kind = "networkError"

\* part_000 12-25: the fetch rejects, !response.ok throws, or response.json()
\* throws.
UpstreamThrows(resp) == resp.kind # "ok"

\* GET from the upstream response on, part_000 21-30.
upstreamResponse(i, resp) ==
    /\ i \in 1..Len(requests)
    /\ requests[i].state = "upstream"
    /\ requests' = [requests EXCEPT ![i] =
         IF UpstreamThrows(resp)
         THEN Respond(requests[i].query, 500,
                      ErrorBody("Failed to fetch search results"),
                      requests[i].upstream, resp)
         ELSE Respond(requests[i].query, 200, DataBody(resp.body),
                      requests[i].upstream, resp)]
    /\ UNCHANGED mapVars

NextProxy ==
    \/ \E query \in QueryParams : GET(query)
    \/ \E i \in 1..MaxRequests, resp \in UpstreamResponses : upstreamResponse(i, resp)

SpecProxy == Init /\ [][NextProxy]_vars

(***************************************************************************)
(* The claims.                                                             *)
(***************************************************************************)
\* The call that ended last replaced the list: a hydration response, a
\* failed discovery response, or a discovery response without items.
ListReplaced ==
    \/ lastOp.op = "hydrationResponse"
    \/ /\ lastOp.op = "discoveryResponse"
       /\ (lastOp.arg.failed \/ lastOp.arg.body = <<>>)

\* C1: whenever the article list is not empty, the cursor is an index of
\* it, 0 <= currentArticleIndex < length, so the focused item exists.
C1_CursorInRange ==
    Len(wikiArticles) > 0 => currentArticleIndex \in 0..(Len(wikiArticles) - 1)

\* C2: in the state a fetchWikiArticles call leaves when it replaces the
\* article list, the cursor is 0.
C2_CursorResetOnReplace == ListReplaced => currentArticleIndex = 0

\* C3: once every overlapping fetchWikiArticles call has ended, the article
\* list is exactly the result of the call that ended last, in whatever order
\* the calls were issued.
C3_LastResponseWins == fetches = <<>> => wikiArticles = lastResolved.result
\* The call that ended last had been issued before a call that ended
\* earlier, and it left a list of its own.
C3_Witness ==
    /\ fetches = <<>>
    /\ lastOp.op = "hydrationResponse"
    /\ lastOp.arg.stale
    /\ wikiArticles # <<>>

\* C4: after a discovery or hydration response that failed, the article
\* list is empty, the no-results card is shown and the marker layer is
\* empty.
C4_FailureEmptiesList ==
    (lastOp.op \in {"discoveryResponse", "hydrationResponse"} /\ lastOp.arg.failed)
    => /\ wikiArticles = <<>>
       /\ Render = "noResults"
       /\ markersLayer = <<>>
\* A hydration response failed after the user had moved the cursor in an
\* earlier list.
C4_Witness ==
    /\ lastOp.op = "hydrationResponse"
    /\ lastOp.arg.failed
    /\ currentArticleIndex > 0

\* C5: a discovery response without items leaves the article list empty,
\* and no hydration request is ever in flight for an empty list of ids.
C5_NoIdsNoHydration ==
    /\ (lastOp.op = "discoveryResponse" /\ ~lastOp.arg.failed
        /\ lastOp.arg.body = <<>>) => wikiArticles = <<>>
    /\ \A i \in 1..Len(fetches) :
         fetches[i].phase = "hydration" => fetches[i].request # <<>>
\* A discovery response without items arrived while another call was in
\* flight and the cursor had been moved.
C5_Witness ==
    /\ lastOp.op = "discoveryResponse"
    /\ ~lastOp.arg.failed
    /\ lastOp.arg.body = <<>>
    /\ currentArticleIndex > 0
    /\ Len(fetches) > 0

\* C6: every item of the article list has a latitude and a longitude of
\* type number.
C6_NumericCoordinates ==
    \A i \in 1..Len(wikiArticles) :
        wikiArticles[i].lat.t = "number" /\ wikiArticles[i].lon.t = "number"

\* C7: submitting a query of length 0, 1 or 2 issues no request to the
\* geocode proxy and changes no state of the component.
C7_ShortQueryNoOp ==
    [][(lastOp'.op = "handleSearch" /\ Len(searchQuery) <= 2)
       => UNCHANGED <<searchQuery, currentLayer, showControls, wikiArticles,
                      currentArticleIndex, userLocation, mapView, tileLayers,
                      tileLayerRef, markersLayer, userMarker, geolocation,
                      fetches, searches, lastResolved, requests>>]_vars
\* A query of two characters was submitted.
C7_Witness == lastOp.op = "handleSearch" /\ Len(searchQuery) = 2

\* The coordinate a geocoder candidate denotes, in thousandths of a degree.
CoordinateOf(result) ==
    IF result = Paris THEN <<48856, 2352>> ELSE <<51505, 0 - 90>>

\* C8: after a search response that is a non-empty array, the viewport is
\* centred on the coordinate of the first candidate at zoom 13, and the
\* fetch issued last is a discovery request for that coordinate.
C8_RecenterOnFirstResult ==
    (lastOp.op = "handleSearchResponse" /\ ~lastOp.arg.failed
     /\ Len(lastOp.arg.body) > 0)
    => LET first == CoordinateOf(lastOp.arg.body[1])
       IN /\ mapView = [center |-> first, zoom |-> 13]
          /\ Len(fetches) > 0
          /\ fetches[Len(fetches)].phase = "discovery"
          /\ fetches[Len(fetches)].request = first
\* The response held two candidates, London after Paris.
C8_Witness ==
    /\ lastOp.op = "handleSearchResponse"
    /\ ~lastOp.arg.failed
    /\ lastOp.arg.body = <<Paris, London>>

\* C9: a search response that failed or is an empty array leaves the
\* viewport, the active layer, the article list, the cursor, the markers
\* and the fetches in flight as they were.
C9_FailedSearchNoChange ==
    [][(lastOp'.op = "handleSearchResponse"
        /\ (lastOp'.arg.failed \/ lastOp'.arg.body = <<>>))
       => UNCHANGED <<mapView, currentLayer, tileLayers, tileLayerRef,
                      wikiArticles, currentArticleIndex, markersLayer,
                      userMarker, userLocation, fetches, lastResolved>>]_vars
\* A search failed while the viewport was away from its initial place and
\* the card showed its second article.
C9_Witness ==
    /\ lastOp.op = "handleSearchResponse"
    /\ lastOp.arg.failed
    /\ mapView # SetView(InitialLat, InitialLon, InitialZoom)
    /\ currentArticleIndex = 1

\* C10: every invocation of the proxy whose q is absent or empty has been
\* answered with status 400 and an error body, without an upstream request.
C10_MissingQueryRejected ==
    \A i \in 1..Len(requests) :
        (requests[i].query.t = "null" \/ requests[i].query.s = <<>>)
        => /\ requests[i].state = "done"
           /\ requests[i].status = 400
           /\ requests[i].body.json = "error"
           /\ requests[i].upstream = 0
\* One invocation had no q, another an empty q.
C10_Witness ==
    /\ \E i \in 1..Len(requests) : requests[i].query = NoText
    /\ \E i \in 1..Len(requests) : requests[i].query = Text(<<>>)

\* C11: every invocation of the proxy with a non-empty q makes exactly one
\* upstream request; once answered, its status is 200 and its body the
\* upstream JSON when the upstream call succeeded, and otherwise its status
\* is 500 and its body the fixed error text.
C11_ProxyOneRequestOneResponse ==
    \A i \in 1..Len(requests) :
        (requests[i].query.t = "string" /\ requests[i].query.s # <<>>)
        => /\ requests[i].upstream = 1
           /\ requests[i].state = "done" =>
                IF requests[i].got.kind = "ok"
                THEN /\ requests[i].status = 200
                     /\ requests[i].body = DataBody(requests[i].got.body)
                ELSE /\ requests[i].got.kind \in {"networkError", "notOk", "unparsable"}
                     /\ requests[i].status = 500
                     /\ requests[i].body = ErrorBody("Failed to fetch search results")
\* One invocation was answered from a non-ok upstream status, another from
\* a list of two candidates.
C11_Witness ==
    /\ \E i \in 1..Len(requests) :
         requests[i].state = "done" /\ requests[i].got.kind = "notOk"
    /\ \E i \in 1..Len(requests) :
         requests[i].state = "done" /\ requests[i].got = Ok(<<Paris, London>>)

\* C12: exactly one tile layer is mounted on the map, the one tileLayerRef
\* holds; during a changeMapLayer call the old layer is off the map before
\* the new one is added, so that no layer is mounted between the two calls
\* and never two.
C12_OneTileLayer ==
    /\ Cardinality(tileLayers) = 1
    /\ tileLayers = {tileLayerRef}
    /\ lastOp.op = "changeMapLayer" => lastOp.arg.between = {}
\* The layer was switched to satellite.
C12_Witness ==
    /\ lastOp.op = "changeMapLayer"
    /\ tileLayers = {"satellite"}

\* navigateArticle called n times in one direction, from cursor index.
RECURSIVE Navigated(_, _, _, _)
Navigated(direction, n, index, length) ==
    IF n = 0 THEN index
    ELSE Navigated(direction, n - 1,
                   IF direction = "next" THEN NextIndex(index, length)
                   ELSE PrevIndex(index, length),
                   length)

\* C13: each navigateArticle call leaves the list alone and moves the
\* cursor to index+1 mod N (next) or index-1+N mod N (prev), N the length
\* of the list; and from any cursor the card can show, N calls in one
\* direction lead back to that cursor.
C13_NavigationWraps ==
    /\ [](Render = "card" =>
            \A direction \in {"next", "prev"} :
                Navigated(direction, Len(wikiArticles), currentArticleIndex,
                          Len(wikiArticles)) = currentArticleIndex)
    /\ [][lastOp'.op = "navigateArticle" =>
            /\ wikiArticles' = wikiArticles
            /\ currentArticleIndex' =
                 IF lastOp'.arg = "next"
                 THEN (currentArticleIndex + 1) % Len(wikiArticles)
                 ELSE (currentArticleIndex - 1 + Len(wikiArticles)) % Len(wikiArticles)]_vars
\* prev from the first of two articles wrapped to the second, then next
\* from the second wrapped to the first.
C13_Witness ==
    /\ lastOp.op = "navigateArticle"
    /\ lastOp.arg = "next"
    /\ Len(wikiArticles) = 2
    /\ currentArticleIndex = 0

\* C14: with a list of length 0 or 1 the navigation buttons are unavailable
\* (not rendered, or disabled), the cursor of a rendered one-article card
\* is where next and prev would put it, and no step moves the cursor.
C14_NoNavigationOnShortList ==
    /\ [](Len(wikiArticles) <= 1 =>
            /\ Render # "card" \/ NavigationDisabled
            /\ Render = "card" =>
                 /\ (currentArticleIndex + 1) % Len(wikiArticles) = currentArticleIndex
                 /\ (currentArticleIndex - 1 + Len(wikiArticles)) % Len(wikiArticles)
                      = currentArticleIndex)
    /\ [][Len(wikiArticles) <= 1 =>
            currentArticleIndex' = currentArticleIndex]_vars
\* A hydration response left a card of one article.
C14_Witness ==
    /\ Len(wikiArticles) = 1
    /\ Render = "card"
    /\ lastOp.op = "hydrationResponse"

RECURSIVE IdsText(_)
IdsText(items) ==
    IF items = <<>> THEN <<>>
    ELSE NatToChars(items[1].pageid.v)
         \o (IF Len(items) > 1 THEN <<"|">> \o IdsText(Tail(items)) ELSE <<>>)
HydrationsInFlight ==
    Cardinality({i \in 1..Len(fetches) : fetches[i].phase = "hydration"})

\* C16: a call issues its hydration request in the step that receives its
\* own discovery response, when that response holds an identifier, and in
\* no other step; the request replaces the discovery request as the one the
\* call awaits and carries the identifiers of that response, all of them,
\* in its order.
C16_HydrationAfterDiscovery ==
    [][/\ lastOp'.op = "discoveryResponse" =>
            \E i \in 1..Len(fetches) :
                /\ fetches[i].phase = "discovery"
                /\ IF ~lastOp'.arg.failed /\ lastOp'.arg.body # <<>>
                   THEN fetches' = [fetches EXCEPT ![i] =
                            [phase |-> "hydration",
                             request |-> IdsText(lastOp'.arg.body),
                             overtaken |-> fetches[i].overtaken]]
                   ELSE /\ Len(fetches') = Len(fetches) - 1
                        /\ HydrationsInFlight' = HydrationsInFlight
       /\ HydrationsInFlight' > HydrationsInFlight =>
            /\ lastOp'.op = "discoveryResponse"
            /\ ~lastOp'.arg.failed
            /\ lastOp'.arg.body # <<>>]_vars
\* A discovery response listed page 2 before page 1, and the call awaits
\* the hydration of "2|1".
C16_Witness ==
    /\ lastOp.op = "discoveryResponse"
    /\ ~lastOp.arg.failed
    /\ lastOp.arg.body = <<[pageid |-> Num(2)], [pageid |-> Num(1)]>>
    /\ \E i \in 1..Len(fetches) :
         fetches[i] = [phase |-> "hydration", request |-> <<"2", "|", "1">>,
                       overtaken |-> FALSE]

\* C17: userLocation is written only by the geolocation callback, and only
\* while it is unset, so at most once; the center-on-me button leaves it as
\* it is, takes the viewport to it at zoom 13 when it is set, and changes
\* nothing when it is unset.
C17_UserLocationSetOnce ==
    [][/\ userLocation' # userLocation =>
            /\ userLocation = NoLocation
            /\ lastOp'.op = "getCurrentPosition"
       /\ lastOp'.op = "centerOnUserLocation" =>
            /\ userLocation' = userLocation
            /\ userMarker' = userMarker
            /\ mapView' = IF userLocation = NoLocation THEN mapView
                          ELSE [center |-> userLocation, zoom |-> 13]
            /\ UNCHANGED <<searchQuery, currentLayer, showControls, wikiArticles,
                           currentArticleIndex, tileLayers, tileLayerRef,
                           markersLayer, geolocation, fetches, searches,
                           lastResolved, requests>>]_vars
\* The button was pressed with the position known and took the viewport
\* there.
C17_Witness ==
    /\ lastOp.op = "centerOnUserLocation"
    /\ userLocation # NoLocation
    /\ mapView = [center |-> userLocation, zoom |-> 13]

\* The marker of an article.
MarkerOf(article) ==
    [lat |-> article.lat.v, lon |-> article.lon.v, pageid |-> article.pageid]

\* C18: the marker layer holds one marker per item of the article list, at
\* the item's coordinate and in the list's order, and nothing else; the
\* user marker is where the geolocation callback put it.
C18_MarkersMatchList ==
    /\ markersLayer = [i \in 1..Len(wikiArticles) |-> MarkerOf(wikiArticles[i])]
    /\ userMarker = userLocation

\* C19: the article list changes only in the step that ends a
\* fetchWikiArticles call, which leaves the call's result (the empty list
\* after a failure or a discovery without items); the step from discovery
\* to hydration, navigation, a layer change, a search submission, a search
\* response and the center-on-me button leave the list as it is.
C19_ListWrittenAtCallEnd ==
    [][LET op == lastOp'.op
           ends == /\ op \in {"discoveryResponse", "hydrationResponse"}
                   /\ Len(fetches') = Len(fetches) - 1
       IN /\ wikiArticles' # wikiArticles => ends
          /\ ends => /\ wikiArticles' = lastResolved'.result
                     /\ lastOp'.arg.failed => wikiArticles' = <<>>
                     /\ op = "discoveryResponse" => wikiArticles' = <<>>
          /\ (op = "discoveryResponse" /\ ~ends) =>
                /\ wikiArticles' = wikiArticles
                /\ markersLayer' = markersLayer
          /\ op \in {"navigateArticle", "changeMapLayer", "handleSearch",
                      "handleSearchResponse", "centerOnUserLocation",
                      "moveend", "getCurrentPosition", "other"} =>
                wikiArticles' = wikiArticles]_vars
\* A call awaits its hydration while the card still shows the list of an
\* earlier call.
C19_Witness ==
    /\ lastOp.op = "discoveryResponse"
    /\ \E i \in 1..Len(fetches) : fetches[i].phase = "hydration"
    /\ wikiArticles # <<>>

\* C20: the selected layer is the one tile layer mounted on the map, and a
\* changeMapLayer call changes nothing but the layer: viewport, article
\* list, cursor, markers and user location stay as they are.
C20_LayerSwitchOnly ==
    /\ [](tileLayers = {currentLayer})
    /\ [][lastOp'.op = "changeMapLayer" =>
            UNCHANGED <<mapView, wikiArticles, currentArticleIndex, markersLayer,
                        userMarker, userLocation, searchQuery, showControls,
                        geolocation, fetches, searches, lastResolved,
                        requests>>]_vars
\* The layer was switched to explore with a card on screen and the viewport
\* away from the initial view.
C20_Witness ==
    /\ lastOp.op = "changeMapLayer"
    /\ currentLayer = "explore"
    /\ wikiArticles # <<>>
    /\ mapView # SetView(InitialLat, InitialLon, InitialZoom)

\* C21: when every request in flight is eventually answered, no call stays
\* in flight for ever: again and again no call is in flight or the oldest
\* call in flight ends, so that every call becomes the oldest and ends; a
\* call that ends on the mounted component leaves its result as the
\* article list; and unless calls keep being started, the component comes
\* to rest with no call in flight.
C21_EveryFetchEnds ==
    /\ \/ []<>(fetches = <<>>)
       \/ []<><<fetches # <<>> /\ fetches' = Tail(fetches)>>_vars
    /\ [][(Len(fetches') < Len(fetches) /\ Mounted) =>
            wikiArticles' = lastResolved'.result]_vars
    /\ ([]<><<Len(fetches') > Len(fetches)>>_vars) \/ <>[](fetches = <<>>)
\* The position of the device arrived, the calls it and a viewport move
\* started have ended, and the last of them left a card.
C21_Witness ==
    /\ fetches = <<>>
    /\ geolocation = "delivered"
    /\ lastOp.op = "hydrationResponse"
    /\ lastResolved.result # <<>>
    /\ Mounted

====
